---- MODULE Spec2Model ----
(***************************************************************************)
(* fetch_utils.py: the retrying HTTP fetcher fetch_with_retry and the      *)
(* CoinGecko rate limiter _coingecko_rate_limit with the getters that      *)
(* call it.                                                                *)
(*                                                                         *)
(* Time is counted in ticks, TicksPerSecond ticks to a second, so that a   *)
(* base_delay that is not a whole number of seconds can be written.        *)
(* base_delay is held in ticks; a Retry-After header and int() yield whole *)
(* seconds.  Every duration in the log is in ticks.                        *)
(***************************************************************************)
EXTENDS Integers, Sequences, FiniteSets, TLC

\* ------------------------------------------------------------------ bounds
TicksPerSecond == 2
MaxRetries == 3
MaxBaseDelay == 4
MaxLatency == 1
MaxOvershoot == 1
Horizon == 30
MaxIdleGap == 30
StartClock == 40

\* --------------------------------------------------------- program constants
CG_RATE_LIMIT == 12
DEFAULT_MAX_RETRIES == 3
DEFAULT_BASE_DELAY == 2

VARIABLES
    max_retries,    \* argument of fetch_with_retry
    base_delay,     \* argument of fetch_with_retry, in ticks
    attempt,        \* loop variable of "for attempt in range(max_retries)"
    pc,             \* position in the code
    resp,           \* what the current attempt's request produced
    exc,            \* exception in flight inside the try block, or "none"
    log,            \* events of the current fetch_with_retry call, in order
    result,         \* how the current fetch_with_retry call ended
    now,            \* time.time(), in ticks
    cg_last_call,   \* global _cg_last_call, in ticks
    stored,         \* values successively assigned to _cg_last_call
    getter,         \* the CoinGecko getter being executed, or "none"
    ret             \* what the last getter call gave its caller

vars == <<max_retries, base_delay, attempt, pc, resp, exc, log, result,
          now, cg_last_call, stored, getter, ret>>

cgVars == <<cg_last_call, stored, getter, ret>>

\* ------------------------------------------------------------ input domains
\* Status codes a server may answer with; the 4xx and 5xx range ends are there.
Statuses == {200, 304, 400, 404, 429, 499, 500, 503}

\* Texts a Retry-After header may carry, as sequences of characters.
RetryAfterTexts == { <<"5">>, <<"0">>, <<"-", "1">>, <<"s", "o", "o", "n">> }

\* Exceptions requests.get / requests.post may raise.
RequestExceptions == {"Timeout", "ConnectionError", "RequestException"}

NoResponse == [status |-> 0, has_retry_after |-> FALSE, retry_after |-> <<>>,
               json_ok |-> FALSE, raised |-> "none"]

\* Every outcome of one requests.get / requests.post call.
Outcomes ==
    { [NoResponse EXCEPT !.raised = e] : e \in RequestExceptions }
    \cup { [NoResponse EXCEPT !.status = 200, !.json_ok = j] : j \in BOOLEAN }
    \cup { [NoResponse EXCEPT !.status = s] : s \in Statuses \ {200, 429} }
    \cup { [NoResponse EXCEPT !.status = 429] }
    \cup { [NoResponse EXCEPT !.status = 429, !.has_retry_after = TRUE,
                              !.retry_after = t] : t \in RetryAfterTexts }

\* ------------------------------------------------------------------ helpers
Pow2(n) == 2 ^ n

Digits == {"0", "1", "2", "3", "4", "5", "6", "7", "8", "9"}

DigitValue(c) ==
    CASE c = "0" -> 0 [] c = "1" -> 1 [] c = "2" -> 2 [] c = "3" -> 3
      [] c = "4" -> 4 [] c = "5" -> 5 [] c = "6" -> 6 [] c = "7" -> 7
      [] c = "8" -> 8 [] c = "9" -> 9

RECURSIVE DigitsValue(_)
DigitsValue(s) ==
    IF s = <<>> THEN 0
    ELSE 10 * DigitsValue(SubSeq(s, 1, Len(s) - 1)) + DigitValue(s[Len(s)])

AllDigits(s) == Len(s) > 0 /\ \A i \in 1..Len(s) : s[i] \in Digits

\* int(text): a decimal integer with an optional sign, else ValueError.
ParseInt(s) ==
    IF AllDigits(s) THEN [ok |-> TRUE, val |-> DigitsValue(s)]
    ELSE IF Len(s) > 1 /\ s[1] = "-" /\ AllDigits(Tail(s))
         THEN [ok |-> TRUE, val |-> 0 - DigitsValue(Tail(s))]
    ELSE IF Len(s) > 1 /\ s[1] = "+" /\ AllDigits(Tail(s))
         THEN [ok |-> TRUE, val |-> DigitsValue(Tail(s))]
    ELSE [ok |-> FALSE, val |-> 0]

\* int(x) of a positive float x given in ticks: whole seconds, fraction dropped.
IntOfFloat(ticks) == ticks \div TicksPerSecond

\* base_delay with the doubling left out.
BackoffDelayConstant(bd, a) == bd

\* base_delay * (2 ** attempt), in ticks.
BackoffDelay(bd, a) == bd * Pow2(a)

\* int(resp.headers.get("Retry-After", base_delay * (2 ** attempt))), in seconds.
RetryAfter(r, bd, a) ==
    IF r.has_retry_after THEN ParseInt(r.retry_after)
    ELSE [ok |-> TRUE, val |-> IntOfFloat(BackoffDelay(bd, a))]

\* Only the two named except clauses, the catch-all "except Exception" left out.
HandlesNamedOnly(e) == e \in {"Timeout", "ConnectionError"}

\* The except clauses of the try block: Timeout, ConnectionError, Exception.
Handles(e) == e \in {"Timeout", "ConnectionError"}
              \/ e \in {"RequestException", "ValueError"}

\* The client-error test written 400 < status, so that 400 itself is retried.
ClassifyExclusive400(status) ==
    IF status = 200 THEN "success"
    ELSE IF status = 429 THEN "rate_limited"
    ELSE IF 400 < status /\ status < 500 THEN "client_error"
    ELSE "server_error"

\* The if-chain on resp.status_code, in the order the code tests it.
Classify(status) ==
    IF status = 200 THEN "success"
    ELSE IF status = 429 THEN "rate_limited"
    ELSE IF 400 <= status /\ status < 500 THEN "client_error"
    ELSE "server_error"

\* The loop written range(max_retries + 1).
LoopNextOffByOne(a, mr) == IF a + 1 < mr + 1 THEN "attempt" ELSE "exhausted"

\* "for attempt in range(max_retries)": the position after attempt a ends.
LoopNext(a, mr) == IF a + 1 < mr THEN "attempt" ELSE "exhausted"

RequestEvent(a, r) ==
    [ev |-> "request", attempt |-> a, status |-> r.status, raised |-> r.raised,
     has_retry_after |-> r.has_retry_after, retry_after |-> r.retry_after,
     dur |-> 0]

SleepEvent(a, d) ==
    [ev |-> "sleep", attempt |-> a, status |-> 0, raised |-> "none",
     has_retry_after |-> FALSE, retry_after |-> <<>>, dur |-> d]

\* The log observes a direct call of fetch_with_retry; a call made by a
\* CoinGecko getter runs the same steps unobserved.
Record(l, e) == IF getter = "none" THEN Append(l, e) ELSE l

\* fetch_with_retry never reads the clock: the time its steps take is followed
\* when a CoinGecko getter runs it, since the getter's limiter reads the clock.
Elapse(times) == IF getter = "none" THEN {now} ELSE times

\* time.sleep(d): the clock after the caller wakes, never before d has passed.
WakeTimes(t, d) == { t + d + over : over \in 0..MaxOvershoot }

\* The clock after a request that began at t: the reply or the failure takes
\* up to MaxLatency.
ReplyTimes(t) == { t + lat : lat \in 0..MaxLatency }

\* --------------------------------------------------------- fetch_with_retry
\* Entry of fetch_with_retry(url, max_retries = mr, base_delay = bd).
Enter(mr, bd) ==
    /\ max_retries' = mr
    /\ base_delay' = bd
    /\ attempt' = 0
    /\ pc' = IF mr > 0 THEN "attempt" ELSE "exhausted"
    /\ resp' = NoResponse
    /\ exc' = "none"
    /\ log' = <<>>
    /\ result' = "pending"

\* requests.get / requests.post inside the try block.
SendRequest ==
    /\ pc = "attempt"
    /\ \E r \in Outcomes :
        /\ resp' = r
        /\ log' = Record(log, RequestEvent(attempt, r))
        /\ now' \in Elapse(ReplyTimes(now))
        /\ exc' = r.raised
        /\ pc' = IF r.raised = "none" THEN "classify" ELSE "except"
    /\ UNCHANGED <<max_retries, base_delay, attempt, result>>
    /\ UNCHANGED cgVars

\* A 200 that is not returned but treated as one more failure.
SuccessFallsThrough ==
    /\ pc = "classify"
    /\ Classify(resp.status) = "success"
    /\ pc' = "backoff"
    /\ UNCHANGED <<max_retries, base_delay, attempt, resp, exc, log, result, now>>
    /\ UNCHANGED cgVars

\* if resp.status_code == 200: return resp
Success ==
    /\ pc = "classify"
    /\ Classify(resp.status) = "success"
    /\ result' = "Response"
    /\ pc' = "done"
    /\ UNCHANGED <<max_retries, base_delay, attempt, resp, exc, log, now>>
    /\ UNCHANGED cgVars

\* The 429 branch without its "continue": the trailing backoff follows the wait.
RateLimitedNoContinue ==
    /\ pc = "classify"
    /\ Classify(resp.status) = "rate_limited"
    /\ LET ra == RetryAfter(resp, base_delay, attempt) IN
        IF ra.ok /\ ra.val >= 0
        THEN /\ log' = Record(log, SleepEvent(attempt, ra.val * TicksPerSecond))
             /\ now' \in Elapse(WakeTimes(now, ra.val * TicksPerSecond))
             /\ pc' = "backoff"
             /\ exc' = exc
        ELSE /\ exc' = "ValueError"
             /\ pc' = "except"
             /\ UNCHANGED <<log, now>>
    /\ UNCHANGED <<max_retries, base_delay, attempt, resp, result>>
    /\ UNCHANGED cgVars

\* if resp.status_code == 429: retry_after = int(...); time.sleep; continue
RateLimited ==
    /\ pc = "classify"
    /\ Classify(resp.status) = "rate_limited"
    /\ LET ra == RetryAfter(resp, base_delay, attempt) IN
        IF ra.ok /\ ra.val >= 0
        THEN /\ log' = Record(log, SleepEvent(attempt, ra.val * TicksPerSecond))
             /\ now' \in Elapse(WakeTimes(now, ra.val * TicksPerSecond))
             /\ attempt' = attempt + 1
             /\ pc' = LoopNext(attempt, max_retries)
             /\ exc' = exc
        ELSE \* int() or time.sleep() raises ValueError inside the try block
             /\ exc' = "ValueError"
             /\ pc' = "except"
             /\ UNCHANGED <<log, now, attempt>>
    /\ UNCHANGED <<max_retries, base_delay, resp, result>>
    /\ UNCHANGED cgVars

\* if 400 <= resp.status_code < 500: return None
ClientError ==
    /\ pc = "classify"
    /\ Classify(resp.status) = "client_error"
    /\ result' = "None"
    /\ pc' = "done"
    /\ UNCHANGED <<max_retries, base_delay, attempt, resp, exc, log, now>>
    /\ UNCHANGED cgVars

\* Any other status: the "Server error" message, then the trailing backoff.
ServerError ==
    /\ pc = "classify"
    /\ Classify(resp.status) = "server_error"
    /\ pc' = "backoff"
    /\ UNCHANGED <<max_retries, base_delay, attempt, resp, exc, log, result, now>>
    /\ UNCHANGED cgVars

\* The except clauses; an exception none of them names leaves the function.
HandleException ==
    /\ pc = "except"
    /\ IF Handles(exc)
       THEN /\ pc' = "backoff"
            /\ exc' = "none"
            /\ result' = result
       ELSE /\ pc' = "done"
            /\ exc' = exc
            /\ result' = "raised"
    /\ UNCHANGED <<max_retries, base_delay, attempt, resp, log, now>>
    /\ UNCHANGED cgVars

\* The trailing backoff without its "if attempt < max_retries - 1".
BackoffNoGuard ==
    /\ pc = "backoff"
    /\ log' = Record(log, SleepEvent(attempt, BackoffDelay(base_delay, attempt)))
    /\ now' \in Elapse(WakeTimes(now, BackoffDelay(base_delay, attempt)))
    /\ attempt' = attempt + 1
    /\ pc' = LoopNext(attempt, max_retries)
    /\ UNCHANGED <<max_retries, base_delay, resp, exc, result>>
    /\ UNCHANGED cgVars

\* if attempt < max_retries - 1: time.sleep(base_delay * (2 ** attempt))
Backoff ==
    /\ pc = "backoff"
    /\ IF attempt < max_retries - 1
       THEN /\ log' = Record(log, SleepEvent(attempt, BackoffDelay(base_delay, attempt)))
            /\ now' \in Elapse(WakeTimes(now, BackoffDelay(base_delay, attempt)))
       ELSE UNCHANGED <<log, now>>
    /\ attempt' = attempt + 1
    /\ pc' = LoopNext(attempt, max_retries)
    /\ UNCHANGED <<max_retries, base_delay, resp, exc, result>>
    /\ UNCHANGED cgVars

\* After the loop: the "All attempts failed" message, return None.
Exhausted ==
    /\ pc = "exhausted"
    /\ result' = "None"
    /\ pc' = "done"
    /\ UNCHANGED <<max_retries, base_delay, attempt, resp, exc, log, now>>
    /\ UNCHANGED cgVars

\* ------------------------------------------------------- CoinGecko getters
\* The three getters differ in the URL and the query parameters they hand to
\* fetch_with_retry (get_coingecko_historical caps days at 365); all three call
\* the limiter first and fetch with the default max_retries and base_delay.
Getters == {"get_coingecko_price", "get_coingecko_market_data",
            "get_coingecko_historical"}

\* Time the script spends elsewhere before it calls a getter.
IdleGaps == {0, MaxIdleGap}

\* The script calls one of the CoinGecko getters; it starts no further call
\* once Horizon ticks have passed since its start.
CallGetter ==
    /\ pc = "idle"
    /\ now < StartClock + Horizon
    /\ \E g \in Getters, gap \in IdleGaps :
        /\ getter' = g
        /\ now' = now + gap
    /\ ret' = "none"
    /\ pc' = "rate_limit"
    /\ UNCHANGED <<max_retries, base_delay, attempt, resp, exc, log, result>>
    /\ UNCHANGED <<cg_last_call, stored>>

\* The limiter storing the time it read before the sleep.
CoingeckoRateLimitStoreEarly ==
    /\ pc = "rate_limit"
    /\ LET elapsed == now - cg_last_call IN
        IF elapsed < CG_RATE_LIMIT * TicksPerSecond
        THEN now' \in WakeTimes(now, CG_RATE_LIMIT * TicksPerSecond - elapsed)
        ELSE now' = now
    /\ cg_last_call' = now
    /\ stored' = Append(stored, now)
    /\ pc' = "call_fetch"
    /\ UNCHANGED <<max_retries, base_delay, attempt, resp, exc, log, result>>
    /\ UNCHANGED <<getter, ret>>

\* _coingecko_rate_limit(): sleep out the rest of the interval, store the time.
CoingeckoRateLimit ==
    /\ pc = "rate_limit"
    /\ LET elapsed == now - cg_last_call IN
        IF elapsed < CG_RATE_LIMIT * TicksPerSecond
        THEN now' \in WakeTimes(now, CG_RATE_LIMIT * TicksPerSecond - elapsed)
        ELSE now' = now
    /\ cg_last_call' = now'
    /\ stored' = Append(stored, now')
    /\ pc' = "call_fetch"
    /\ UNCHANGED <<max_retries, base_delay, attempt, resp, exc, log, result>>
    /\ UNCHANGED <<getter, ret>>

\* resp = fetch_with_retry(url, params=params): the defaults of the signature.
GetterFetch ==
    /\ pc = "call_fetch"
    /\ Enter(DEFAULT_MAX_RETRIES, DEFAULT_BASE_DELAY * TicksPerSecond)
    /\ UNCHANGED now
    /\ UNCHANGED cgVars

\* if resp: return resp.json()   /   return None
GetterReturn ==
    /\ pc = "done"
    /\ getter # "none"
    /\ ret' = IF result = "Response"
              THEN (IF resp.json_ok THEN "json" ELSE "raised")
              ELSE IF result = "None" THEN "None" ELSE "raised"
    /\ getter' = "none"
    /\ pc' = "idle"
    \* the frame of fetch_with_retry is gone
    /\ attempt' = 0
    /\ resp' = NoResponse
    /\ exc' = "none"
    /\ result' = "pending"
    /\ UNCHANGED <<max_retries, base_delay, log, now>>
    /\ UNCHANGED <<cg_last_call, stored>>

\* ------------------------------------------------- one fetch_with_retry call
Init ==
    /\ max_retries \in 1..MaxRetries
    /\ base_delay \in 1..MaxBaseDelay
    /\ attempt = 0
    /\ pc = "attempt"
    /\ resp = NoResponse
    /\ exc = "none"
    /\ log = <<>>
    /\ result = "pending"
    /\ now = StartClock
    /\ cg_last_call = 0
    /\ stored = <<>>
    /\ getter = "none"
    /\ ret = "none"

Next ==
    \/ SendRequest
    \/ Success
    \/ RateLimited
    \/ ClientError
    \/ ServerError
    \/ HandleException
    \/ Backoff
    \/ Exhausted

Spec == Init /\ [][Next]_vars

FairSpec == Spec /\ WF_vars(Next)

\* ------------------------------------- a script calling the CoinGecko getters
CGInit ==
    /\ max_retries = DEFAULT_MAX_RETRIES
    /\ base_delay = DEFAULT_BASE_DELAY * TicksPerSecond
    /\ attempt = 0
    /\ pc = "idle"
    /\ resp = NoResponse
    /\ exc = "none"
    /\ log = <<>>
    /\ result = "pending"
    /\ now = StartClock
    /\ cg_last_call = 0
    /\ stored = <<>>
    /\ getter = "none"
    /\ ret = "none"

CGNext ==
    \/ CallGetter
    \/ CoingeckoRateLimit
    \/ GetterFetch
    \/ SendRequest
    \/ Success
    \/ RateLimited
    \/ ClientError
    \/ ServerError
    \/ HandleException
    \/ Backoff
    \/ Exhausted
    \/ GetterReturn

CGSpec == CGInit /\ [][CGNext]_vars

\* ------------------------------------------------------ reading the log
IsRequest(e) == e.ev = "request"
IsSleep(e) == e.ev = "sleep"
GotStatus(e, st) == IsRequest(e) /\ e.raised = "none" /\ e.status = st
Got5xx(e) == IsRequest(e) /\ e.raised = "none" /\ 500 <= e.status /\ e.status < 600
GotRetryable(e) == Got5xx(e) \/ (IsRequest(e) /\ e.raised # "none")
RequestIndexes(l) == { i \in DOMAIN l : IsRequest(l[i]) }
SleepIndexes(l) == { i \in DOMAIN l : IsSleep(l[i]) }
NumRequests(l) == Cardinality(RequestIndexes(l))

\* k requests, attempts 0..k-1, and between attempt i and attempt i+1 one sleep
\* of base_delay * 2^i, nothing else.
BackoffSchedule(l, k) ==
    /\ Len(l) = 2 * k - 1
    /\ \A i \in 0..(k - 1) : IsRequest(l[2 * i + 1]) /\ l[2 * i + 1].attempt = i
    /\ \A i \in 0..(k - 2) : IsSleep(l[2 * i + 2]) /\ l[2 * i + 2].dur = base_delay * (2 ^ i)

\* ------------------------------------------------------------------ claims
\* C1: a call in which every attempt receives a 5xx response issues exactly
\* max_retries requests, sleeps base_delay * 2^i between attempt i and attempt
\* i+1 and at no other time, and returns None.
C1_AllServerErrors ==
    (pc = "done" /\ \A i \in RequestIndexes(log) : Got5xx(log[i]))
        => (result = "None" /\ BackoffSchedule(log, max_retries))

C1_Witness ==
    /\ pc = "done"
    /\ max_retries = 3
    /\ base_delay = 3
    /\ \A i \in RequestIndexes(log) : Got5xx(log[i])
    /\ Len(log) = 5
    /\ log[2].dur = 3 /\ log[4].dur = 6

\* C2: an attempt that receives 200 ends the call with that response: no
\* request and no sleep follows it; a 200 on the first attempt makes the call
\* one request and no sleep.
C2_SuccessReturnsAtOnce ==
    \A i \in DOMAIN log :
        GotStatus(log[i], 200) =>
            /\ i = Len(log)
            /\ pc \in {"classify", "done"}
            /\ (pc = "done" => result = "Response")
            /\ (log[1].status = 200 => Len(log) = 1)

C2_Witness ==
    /\ pc = "done"
    /\ result = "Response"
    /\ Len(log) = 1
    /\ GotStatus(log[1], 200)
    /\ max_retries = 3

\* C3: a first attempt that receives a 4xx status other than 429 ends the call
\* with None after that one request, with no retry and no sleep.
C3_ClientErrorNoRetry ==
    (Len(log) >= 1 /\ log[1].raised = "none"
        /\ 400 <= log[1].status /\ log[1].status < 500 /\ log[1].status # 429)
    => /\ Len(log) = 1
       /\ pc \in {"classify", "done"}
       /\ (pc = "done" => result = "None")

C3_Witness ==
    /\ pc = "done"
    /\ result = "None"
    /\ Len(log) = 1
    /\ GotStatus(log[1], 400)
    /\ max_retries = 3
    /\ base_delay = 1

\* C4: after a 429 whose Retry-After header reads n seconds the fetcher sleeps
\* n seconds and nothing more before the next attempt, whatever base_delay and
\* the attempt index are (a header reading 5 gives 5 seconds).
C4_RetryAfterIsTheOnlySleep ==
    \A i \in DOMAIN log :
        (GotStatus(log[i], 429) /\ log[i].has_retry_after
            /\ ParseInt(log[i].retry_after).ok /\ ParseInt(log[i].retry_after).val >= 0)
        => /\ (i = Len(log) => pc = "classify")
           /\ (i < Len(log) =>
                 /\ IsSleep(log[i + 1])
                 /\ log[i + 1].dur = ParseInt(log[i].retry_after).val * TicksPerSecond
                 /\ (log[i].retry_after = <<"5">> => log[i + 1].dur = 5 * TicksPerSecond))
           /\ (i + 2 <= Len(log) => IsRequest(log[i + 2]))

C4_Witness ==
    /\ Len(log) >= 5
    /\ GotStatus(log[3], 429) /\ log[3].retry_after = <<"5">>
    /\ IsSleep(log[4]) /\ log[4].dur = 5 * TicksPerSecond
    /\ IsRequest(log[5]) /\ log[5].attempt = 2
    /\ base_delay = 3

\* C5: after a 429 without a Retry-After header on attempt i the fetcher sleeps
\* base_delay * 2^i, for every base_delay > 0 and not only whole numbers of
\* seconds.
C5_DefaultRateLimitWait ==
    \A i \in DOMAIN log :
        (GotStatus(log[i], 429) /\ ~log[i].has_retry_after /\ i < Len(log))
        => /\ IsSleep(log[i + 1])
           /\ log[i + 1].dur = base_delay * (2 ^ log[i].attempt)

\* C6: whatever the attempts produce, the call ends with a 200 response or
\* with None, never with an exception raised to the caller.
C6_NoExceptionEscapes ==
    /\ result # "raised"
    /\ (pc = "done" => result \in {"Response", "None"})
    /\ (result = "Response" => resp.status = 200)

C6_Witness ==
    /\ pc = "done"
    /\ result = "None"
    /\ Len(log) >= 3
    /\ GotStatus(log[1], 429) /\ log[1].retry_after = <<"s", "o", "o", "n">>
    /\ \E i \in DOMAIN log : GotStatus(log[i], 429) /\ log[i].retry_after = <<"-", "1">>
    /\ \E i \in DOMAIN log : IsRequest(log[i]) /\ log[i].raised = "RequestException"

\* C7: the call terminates, it never issues more than max_retries requests
\* (a 429 uses up an attempt as a 5xx does), and after max_retries requests
\* none of which received 200 it returns None.
C7_BoundedAttempts ==
    /\ [](NumRequests(log) <= max_retries)
    /\ []((pc = "done" /\ NumRequests(log) = max_retries
            /\ \A i \in DOMAIN log : ~GotStatus(log[i], 200)) => result = "None")
    /\ <>(pc = "done")

C7_Witness ==
    /\ pc = "done"
    /\ result = "None"
    /\ max_retries = 3
    /\ NumRequests(log) = 3
    /\ \A i \in RequestIndexes(log) : GotStatus(log[i], 429)

\* C8: two values successively stored in _cg_last_call are at least 12 seconds
\* apart, however long the fetch between them took.
C8_MinimumSpacing ==
    /\ \A i \in 1..(Len(stored) - 1) : stored[i + 1] - stored[i] >= 12 * TicksPerSecond
    /\ (stored # <<>> => cg_last_call = stored[Len(stored)])

C8_Witness ==
    /\ Len(stored) = 2
    /\ stored[2] - stored[1] = 12 * TicksPerSecond
    /\ pc = "call_fetch"
    /\ ret = "none"

\* C9: when the first k-1 attempts end in a retryable failure (5xx, timeout,
\* connection failure, other exception) and attempt k-1 receives 200, the call
\* returns that response after k requests, having slept base_delay * 2^i after
\* failed attempt i and at no other time.
C9_SuccessAfterFailures ==
    (/\ pc = "done"
     /\ log # <<>>
     /\ GotStatus(log[Len(log)], 200)
     /\ \A i \in RequestIndexes(log) \ {Len(log)} : GotRetryable(log[i]))
    => /\ result = "Response"
       /\ NumRequests(log) <= max_retries
       /\ BackoffSchedule(log, NumRequests(log))

C9_Witness ==
    /\ pc = "done"
    /\ result = "Response"
    /\ max_retries = 3
    /\ base_delay = TicksPerSecond
    /\ Len(log) = 5
    /\ Got5xx(log[1]) /\ log[2].dur = 1 * TicksPerSecond
    /\ log[3].raised = "Timeout" /\ log[4].dur = 2 * TicksPerSecond
    /\ GotStatus(log[5], 200)

\* C10: no sleep is performed after the last attempt: every sleep of a call is
\* followed by another request of the same call.
C10_EverySleepPrecedesARequest ==
    pc = "done" =>
        \A i \in SleepIndexes(log) : i < Len(log) /\ IsRequest(log[i + 1])

====
